---- MODULE Spec2Model ----
(***************************************************************************)
(* Model of the skill converter (src/src/converter.ts) and the skill       *)
(* detector (src/src/detector.ts) over an explicit POSIX-like filesystem:  *)
(* directories, regular files with content and mode, symbolic links with   *)
(* their raw text.  Names are sequences of symbols so that concatenation   *)
(* (`${group}-${name}`, `${name}-${Date.now()}`) and startsWith("_") are    *)
(* computed, paths are sequences of names.                                 *)
(***************************************************************************)
EXTENDS Integers, Sequences, FiniteSets, TLC

(* ------------------------------ bounds --------------------------------- *)
\* number of calls in one behaviour
MaxCalls == 2
\* largest value of the clock read by Date.now()
MaxClock == 10
\* longest list handed to convertSkills
MaxBatch == 2
\* symbolic links followed by one path resolution before ELOOP
MaxHops == 4

(* ------------------------------- names --------------------------------- *)
DotDot == <<"..">>
SKILL_MD == <<"SKILL.md">>
BackupName == <<"_", "backup">>
Dash == <<"-">>

RECURSIVE Decimal(_)
\* the decimal digits of a non-negative integer, as template literals print it
Decimal(n) ==
  LET d == <<"0", "1", "2", "3", "4", "5", "6", "7", "8", "9">>[(n % 10) + 1]
  IN IF n < 10 THEN <<d>> ELSE Append(Decimal(n \div 10), d)

\* no name is reserved
noReservedName(name) == FALSE

StartsWithUnderscore(name) == Len(name) > 0 /\ name[1] = "_"

(* ---------------------------- lexical paths ---------------------------- *)
\* a path is the sequence of its components below "/"; link text is
\* [abs, comps] and may hold ".." components
Parent(p) == IF p = <<>> THEN <<>> ELSE SubSeq(p, 1, Len(p) - 1)
Basename(p) == p[Len(p)]
PathJoin(p, name) == Append(p, name)
IsPrefix(p, q) == Len(p) <= Len(q) /\ SubSeq(q, 1, Len(p)) = p

RECURSIVE Normalize(_, _)
\* path.normalize on an absolute path: ".." removes the component before it
Normalize(done, rest) ==
  IF rest = <<>> THEN done
  ELSE IF Head(rest) = DotDot THEN Normalize(Parent(done), Tail(rest))
  ELSE Normalize(Append(done, Head(rest)), Tail(rest))

\* path.resolve(base, text) for an absolute base
PathResolve(base, text) ==
  IF text.abs THEN Normalize(<<>>, text.comps)
  ELSE Normalize(<<>>, base \o text.comps)

RECURSIVE CommonLen(_, _)
CommonLen(p, q) ==
  IF p = <<>> \/ q = <<>> \/ Head(p) # Head(q) THEN 0
  ELSE 1 + CommonLen(Tail(p), Tail(q))

\* path.relative(from, to) for absolute normalized paths
PathRelative(from, to) ==
  LET k == CommonLen(from, to)
  IN [abs |-> FALSE,
      comps |-> [i \in 1..(Len(from) - k) |-> DotDot]
                \o SubSeq(to, k + 1, Len(to))]

(* ------------------------------ filesystem ----------------------------- *)
\* a filesystem is a function from the canonical paths that exist to nodes
NoText == [abs |-> FALSE, comps |-> <<>>]
DirNode == [kind |-> "dir", content |-> "", mode |-> 493, text |-> NoText]
FileNode(c, m) == [kind |-> "file", content |-> c, mode |-> m, text |-> NoText]
LinkNode(t) == [kind |-> "link", content |-> "", mode |-> 511, text |-> t]
AbsText(p) == [abs |-> TRUE, comps |-> p]
RelText(c) == [abs |-> FALSE, comps |-> c]

\* stats.mode & 0o111
HasExecBit(m) == (m % 2 = 1) \/ ((m \div 8) % 2 = 1) \/ ((m \div 64) % 2 = 1)

WalkFail == [ok |-> FALSE, path |-> <<>>]

RECURSIVE Walk(_, _, _, _, _)
\* kernel path resolution from the canonical directory cur along rest;
\* follow says whether a link in the last component is followed.  The
\* result path is canonical; it may be absent from the filesystem when only
\* the last component is missing.
Walk(f, cur, rest, follow, fuel) ==
  IF rest = <<>> THEN [ok |-> TRUE, path |-> cur]
  ELSE
    LET c == Head(rest)
        r == Tail(rest)
        p == Append(cur, c)
    IN IF c = DotDot THEN Walk(f, Parent(cur), r, follow, fuel)
       ELSE IF p \notin DOMAIN f
         THEN (IF r = <<>> THEN [ok |-> TRUE, path |-> p] ELSE WalkFail)
       ELSE IF f[p].kind = "link" /\ (r # <<>> \/ follow)
         THEN (IF fuel = 0 THEN WalkFail
               ELSE Walk(f, IF f[p].text.abs THEN <<>> ELSE cur,
                         f[p].text.comps \o r, follow, fuel - 1))
       ELSE IF f[p].kind = "file" /\ r # <<>> THEN WalkFail
       ELSE Walk(f, p, r, follow, fuel)

Follow(f, p) == Walk(f, <<>>, p, TRUE, MaxHops)
NoFollow(f, p) == Walk(f, <<>>, p, FALSE, MaxHops)

\* fs.existsSync
ExistsSync(f, p) == LET w == Follow(f, p) IN w.ok /\ w.path \in DOMAIN f
\* fs.lstatSync succeeds
LExists(f, p) == LET w == NoFollow(f, p) IN w.ok /\ w.path \in DOMAIN f
\* the node fs.lstatSync / fs.statSync describe (callers check existence)
LNode(f, p) == f[NoFollow(f, p).path]
SNode(f, p) == f[Follow(f, p).path]
IsSymbolicLink(f, p) == LExists(f, p) /\ LNode(f, p).kind = "link"
IsDir(f, p) == ExistsSync(f, p) /\ SNode(f, p).kind = "dir"

\* the canonical paths at or below the canonical path c
Below(f, c) == {q \in DOMAIN f : IsPrefix(c, q)}
\* the tree stored at canonical path c, keyed by relative path
Subtree(f, c) ==
  [r \in {SubSeq(q, Len(c) + 1, Len(q)) : q \in Below(f, c)} |-> f[c \o r]]
\* immediate children of the canonical directory c
Children(f, c) == {q \in DOMAIN f : Len(q) = Len(c) + 1 /\ IsPrefix(c, q)}

Without(f, S) == [q \in DOMAIN f \ S |-> f[q]]
With(f, c, node) == [q \in DOMAIN f \cup {c} |-> IF q = c THEN node ELSE f[q]]

Thrown(f) == [ok |-> FALSE, fs |-> f]
Done(f) == [ok |-> TRUE, fs |-> f]

RECURSIVE MkdirPFrom(_, _, _)
\* fs.mkdirSync(p, {recursive: true}): create the missing components of p
\* from the k-th on; an existing non-directory component throws
MkdirPFrom(f, p, k) ==
  IF k > Len(p) THEN Done(f)
  ELSE
    LET pre == SubSeq(p, 1, k)
        w == Follow(f, pre)
    IN IF ~w.ok THEN Thrown(f)
       ELSE IF w.path \in DOMAIN f
         THEN (IF f[w.path].kind = "dir" THEN MkdirPFrom(f, p, k + 1)
               ELSE Thrown(f))
       ELSE IF LExists(f, pre) THEN Thrown(f)
       ELSE MkdirPFrom(With(f, w.path, DirNode), p, k + 1)

\* converter.ts ensureDir
ensureDir(f, dir) == IF ExistsSync(f, dir) THEN Done(f) ELSE MkdirPFrom(f, dir, 1)

\* fs.symlinkSync(text, p): the parent must be a directory, p must be free,
\* the text must not be empty
SymlinkSync(f, text, p) ==
  LET w == NoFollow(f, p)
  IN IF p = <<>> \/ ~w.ok \/ w.path \in DOMAIN f \/ text.comps = <<>>
        \/ Parent(w.path) \notin DOMAIN f
       THEN Thrown(f)
     ELSE Done(With(f, w.path, LinkNode(text)))

\* fs.unlinkSync(p): removes a link or a file, never a directory
UnlinkSync(f, p) ==
  LET w == NoFollow(f, p)
  IN IF ~w.ok \/ w.path \notin DOMAIN f \/ f[w.path].kind = "dir" THEN Thrown(f)
     ELSE Done(Without(f, {w.path}))

\* fs.rmSync(p, {recursive: true, force: true})
RmSync(f, p) ==
  LET w == NoFollow(f, p)
  IN IF ~w.ok \/ w.path \notin DOMAIN f THEN Done(f)
     ELSE Done(Without(f, Below(f, w.path)))

\* converter.ts removeDir
removeDir(f, dir) == IF ExistsSync(f, dir) THEN RmSync(f, dir) ELSE Done(f)

\* fs.renameSync(old, new) with rename(2) semantics: a directory replaces
\* only an empty directory, a non-directory only a non-directory, and a
\* directory cannot move below itself
RenameSync(f, old, new) ==
  LET wo == NoFollow(f, old)
      wn == NoFollow(f, new)
  IN IF ~wo.ok \/ ~wn.ok \/ wo.path \notin DOMAIN f \/ wo.path = <<>>
        \/ wn.path = <<>> \/ Parent(wn.path) \notin DOMAIN f
       THEN Thrown(f)
     ELSE IF wo.path = wn.path THEN Done(f)
     ELSE IF f[wo.path].kind = "dir" /\ IsPrefix(wo.path, wn.path) THEN Thrown(f)
     ELSE IF wn.path \in DOMAIN f
             /\ (IF f[wo.path].kind = "dir"
                   THEN f[wn.path].kind # "dir" \/ Children(f, wn.path) # {}
                   ELSE f[wn.path].kind = "dir")
       THEN Thrown(f)
     ELSE
       LET moved == Below(f, wo.path)
           kept == (DOMAIN f \ moved) \ {wn.path}
           dest(q) == wn.path \o SubSeq(q, Len(wo.path) + 1, Len(q))
       IN Done([q \in kept \cup {dest(m) : m \in moved} |->
                  IF q \in kept THEN f[q]
                  ELSE f[wo.path \o SubSeq(q, Len(wn.path) + 1, Len(q))]])

\* fs.realpathSync: throws on a missing path, a dangling link or a loop
RealpathOk(f, p) == ExistsSync(f, p)
Realpath(f, p) == Follow(f, p).path

\* fs.copyFileSync(src, dest): content and mode of src (libuv fchmods the
\* destination to the source's mode); dest is created or overwritten
CopyFileSync(f, src, dest) ==
  LET ws == Follow(f, src)
      wd == Follow(f, dest)
  IN IF ~ws.ok \/ ws.path \notin DOMAIN f \/ f[ws.path].kind # "file"
        \/ ~wd.ok \/ wd.path = <<>> \/ Parent(wd.path) \notin DOMAIN f
        \/ (wd.path \in DOMAIN f /\ f[wd.path].kind # "file")
       THEN Thrown(f)
     ELSE Done(With(f, wd.path, FileNode(f[ws.path].content, f[ws.path].mode)))

\* fs.chmodSync(p, mode)
ChmodSync(f, p, m) ==
  LET w == Follow(f, p)
  IN IF ~w.ok \/ w.path \notin DOMAIN f THEN Thrown(f)
     ELSE Done(With(f, w.path, [f[w.path] EXCEPT !.mode = m]))

(* ------------------------------ converter ------------------------------ *)
RECURSIVE SeqOf(_)
\* the elements of a finite set, in the order readdirSync lists them
SeqOf(set) ==
  IF set = {} THEN <<>>
  ELSE LET x == CHOOSE y \in set : TRUE IN <<x>> \o SeqOf(set \ {x})

\* readdir that leaves the subdirectories out
entriesWithoutDirectories(f, src, dest) ==
  LET dir == Follow(f, src).path
  IN SeqOf({[src |-> PathJoin(src, Basename(q)), dest |-> PathJoin(dest, Basename(q))] :
              q \in {c \in Children(f, dir) : f[c].kind # "dir"}})

\* copyDir's readdirSync(src, {withFileTypes: true}) and the two joins of
\* its loop: one pair (srcPath, destPath) for every entry of src
entriesToCopy(f, src, dest) ==
  LET dir == Follow(f, src).path
  IN SeqOf({[src |-> PathJoin(src, Basename(q)), dest |-> PathJoin(dest, Basename(q))] :
              q \in Children(f, dir)})

\* converter.ts copyDir, lines 33-36, with the mode test left out: every
\* copy gets the default mode of a new file
chmodToDefault(c, mode, destPath) ==
  IF ~c.ok THEN c ELSE ChmodSync(c.fs, destPath, 420)

\* converter.ts copyDir, lines 33-36: after copyFileSync returned c, the
\* source's mode is set on the copy when it has an executable bit
chmodIfExecutable(c, mode, destPath) ==
  IF ~c.ok THEN c
  ELSE IF HasExecBit(mode) THEN ChmodSync(c.fs, destPath, mode)
  ELSE c

\* a copy that recreates a link with the absolute path its text designates
copyEntryResolved(f, srcPath, destPath) ==
  IF LNode(f, srcPath).kind = "link"
    THEN SymlinkSync(f, AbsText(PathResolve(Parent(srcPath), LNode(f, srcPath).text)),
                     destPath)
  ELSE chmodIfExecutable(CopyFileSync(f, srcPath, destPath),
                         SNode(f, srcPath).mode, destPath)

\* the body of copyDir's loop for an entry that is not a directory
copyEntry(f, srcPath, destPath) ==
  IF LNode(f, srcPath).kind = "link"
    THEN SymlinkSync(f, LNode(f, srcPath).text, destPath)
  ELSE chmodIfExecutable(CopyFileSync(f, srcPath, destPath),
                         SNode(f, srcPath).mode, destPath)

RECURSIVE copyPending(_, _)
\* copyDir's loop after ensureDir(dest) returned e for the directory entry
\* in front of work
enterDirectory(e, work) ==
  IF ~e.ok THEN e
  ELSE copyPending(e.fs, entriesToCopy(e.fs, Head(work).src, Head(work).dest)
                         \o Tail(work))

\* copyDir's loop after a non-directory entry was copied with outcome one
nextEntry(one, work) ==
  IF ~one.ok THEN one ELSE copyPending(one.fs, Tail(work))

\* copyDir's recursion, depth first: work holds the pairs (srcPath,
\* destPath) still to be copied, the entries of the directory entered last
\* in front
copyPending(f, work) ==
  IF work = <<>> THEN Done(f)
  ELSE IF LNode(f, Head(work).src).kind = "dir"
    THEN enterDirectory(ensureDir(f, Head(work).dest), work)
  ELSE nextEntry(copyEntry(f, Head(work).src, Head(work).dest), work)

\* converter.ts copyDir after its ensureDir(dest) returned e
copyInto(e, src, dest) ==
  IF ~e.ok THEN e
  ELSE IF ~IsDir(e.fs, src) THEN Thrown(e.fs)
  ELSE copyPending(e.fs, entriesToCopy(e.fs, src, dest))

\* converter.ts copyDir
copyDir(f, src, dest) == copyInto(ensureDir(f, dest), src, dest)

\* converter.ts isSymlinkTo
isSymlinkTo(f, linkPath, targetPath) ==
  IF ~LExists(f, linkPath) THEN FALSE
  ELSE IF LNode(f, linkPath).kind # "link" THEN FALSE
  ELSE PathResolve(Parent(linkPath), LNode(f, linkPath).text)
         = Normalize(<<>>, targetPath)

\* converter.ts createRelativeSymlink
createRelativeSymlink(f, source, target) ==
  SymlinkSync(f, PathRelative(Parent(target), source), target)

\* a ConversionResult; error <<>> stands for an absent error field
Result(skill, success, action, targetPath, error) ==
  [skill |-> skill, success |-> success, action |-> action,
   targetPath |-> targetPath, error |-> error]

\* the Error of convertSkill's catch: `Failed to convert skill ${name}: ${error}`
FailureMessage(skill) ==
  <<"Failed to convert skill ">> \o skill.name \o <<": ", "Error">>

\* a catch that returns a failed result instead of failing the Effect
FailAsResult(f, skill) ==
  [exit |-> "succeed", fs |-> f,
   value |-> <<Result(skill, FALSE, "skipped", skill.path, FailureMessage(skill))>>,
   message |-> <<>>]

\* the Effect convertSkill evaluates to: exit "succeed" carries value, exit
\* "fail" carries the message of the Error; fs is the filesystem it leaves
Succeed(f, value) == [exit |-> "succeed", fs |-> f, value |-> <<value>>, message |-> <<>>]
Fail(f, skill) == [exit |-> "fail", fs |-> f, value |-> <<>>, message |-> FailureMessage(skill)]

\* converter.ts convertSkill, case "backup", after ensureDir(backupDir)
\* returned e
moveToBackup(e, targetPath, backupPath) ==
  IF ~e.ok THEN e ELSE RenameSync(e.fs, targetPath, backupPath)

\* converter.ts convertSkill, case "backup"
backupTarget(f, skill, targetDir, targetPath, t) ==
  moveToBackup(ensureDir(f, PathJoin(targetDir, BackupName)), targetPath,
               PathJoin(PathJoin(targetDir, BackupName),
                        skill.name \o Dash \o Decimal(t)))

\* an overwrite that removes what the target leads to along with the target
overwriteThroughLink(f, targetPath) ==
  IF ExistsSync(f, targetPath)
  THEN Done(Without(f, Below(f, Follow(f, targetPath).path)
                         \cup Below(f, NoFollow(f, targetPath).path)))
  ELSE RmSync(f, targetPath)

\* converter.ts convertSkill, case "overwrite"
overwriteTarget(f, targetPath) ==
  IF LNode(f, targetPath).kind = "link" THEN UnlinkSync(f, targetPath)
  ELSE removeDir(f, targetPath)

\* the switch with the return of case "skip" missing: it falls through
resolveConflictFallThrough(f, skill, targetDir, targetPath, conflictResolution, t) ==
  CASE conflictResolution \in {"skip", "backup"} ->
         [returned |-> FALSE, after |-> backupTarget(f, skill, targetDir, targetPath, t)]
    [] conflictResolution = "overwrite" ->
         [returned |-> FALSE, after |-> overwriteTarget(f, targetPath)]

\* converter.ts convertSkill, switch (conflictResolution) for an existing
\* target: returned says that the case returned "Already exists", after is
\* the outcome of the case's filesystem calls
resolveConflict(f, skill, targetDir, targetPath, conflictResolution, t) ==
  CASE conflictResolution = "skip" -> [returned |-> TRUE, after |-> Done(f)]
    [] conflictResolution = "backup" ->
         [returned |-> FALSE, after |-> backupTarget(f, skill, targetDir, targetPath, t)]
    [] conflictResolution = "overwrite" ->
         [returned |-> FALSE, after |-> overwriteTarget(f, targetPath)]

\* converter.ts convertSkill, lines 134-137: actualSource
actualSource(f, sourcePath) ==
  IF LNode(f, sourcePath).kind = "link" THEN Realpath(f, sourcePath) ELSE sourcePath

\* converter.ts convertSkill, case "symlink"
linkSource(f, sourcePath, targetPath) ==
  IF LNode(f, sourcePath).kind = "link" /\ ~RealpathOk(f, sourcePath) THEN Thrown(f)
  ELSE createRelativeSymlink(f, actualSource(f, sourcePath), targetPath)

\* converter.ts convertSkill, case "copy"
copySource(f, sourcePath, targetPath) ==
  IF LNode(f, sourcePath).kind = "link" /\ ~RealpathOk(f, sourcePath) THEN Thrown(f)
  ELSE copyDir(f, actualSource(f, sourcePath), targetPath)

\* converter.ts convertSkill, case "move", line 166 after copyDir returned c
unlinkSource(c, sourcePath) ==
  IF ~c.ok THEN c ELSE UnlinkSync(c.fs, sourcePath)

\* a move that copies and leaves the source where it is
moveSourceByCopy(f, sourcePath, targetPath) ==
  copySource(f, sourcePath, targetPath)

\* a move that takes the real directory of a linked source along
moveRealDirectory(f, sourcePath, targetPath) ==
  IF LNode(f, sourcePath).kind # "link" THEN RenameSync(f, sourcePath, targetPath)
  ELSE IF ~RealpathOk(f, sourcePath) THEN Thrown(f)
  ELSE unlinkSource(RenameSync(f, Realpath(f, sourcePath), targetPath), sourcePath)

\* converter.ts convertSkill, case "move"
moveSource(f, sourcePath, targetPath) ==
  IF LNode(f, sourcePath).kind = "link"
    THEN unlinkSource(copySource(f, sourcePath, targetPath), sourcePath)
  ELSE RenameSync(f, sourcePath, targetPath)

\* the action a mode reports
ActionOf(mode) ==
  CASE mode = "symlink" -> "symlinked" [] mode = "copy" -> "copied"
    [] mode = "move" -> "moved"

\* converter.ts convertSkill, the return of each case of switch (mode),
\* or the catch when a call of the case threw
returnAction(r, skill, targetPath, mode) ==
  IF r.ok THEN Succeed(r.fs, Result(skill, TRUE, ActionOf(mode), targetPath, <<>>))
  ELSE Fail(r.fs, skill)

\* converter.ts convertSkill, switch (mode)
executeMode(f, skill, targetPath, mode) ==
  IF ~LExists(f, skill.path) THEN Fail(f, skill)
  ELSE returnAction(CASE mode = "symlink" -> linkSource(f, skill.path, targetPath)
                      [] mode = "copy" -> copySource(f, skill.path, targetPath)
                      [] mode = "move" -> moveSource(f, skill.path, targetPath),
                    skill, targetPath, mode)

\* converter.ts convertSkill from ensureDir(targetDir) on; e is its outcome
convertInto(e, skill, targetPath, mode) ==
  IF ~e.ok THEN Fail(e.fs, skill) ELSE executeMode(e.fs, skill, targetPath, mode)

\* converter.ts convertSkill after the conflict switch with outcome c
afterConflict(f, c, skill, targetDir, targetPath, mode) ==
  IF c.returned
    THEN Succeed(f, Result(skill, TRUE, "skipped", targetPath, <<"Already exists">>))
  ELSE IF ~c.after.ok THEN Fail(c.after.fs, skill)
  ELSE convertInto(ensureDir(c.after.fs, targetDir), skill, targetPath, mode)

\* a convertSkill that applies the conflict policy to every existing target
convertSkillPolicyFirst(f, skill, targetDir, mode, conflictResolution, t) ==
  IF ~LExists(f, PathJoin(targetDir, skill.name))
    THEN convertInto(ensureDir(f, targetDir), skill,
                     PathJoin(targetDir, skill.name), mode)
  ELSE afterConflict(f, resolveConflict(f, skill, targetDir,
                                        PathJoin(targetDir, skill.name),
                                        conflictResolution, t),
                     skill, targetDir, PathJoin(targetDir, skill.name), mode)

\* a convertSkill whose existence check follows links
convertSkillFollowingLinks(f, skill, targetDir, mode, conflictResolution, t) ==
  IF ~ExistsSync(f, PathJoin(targetDir, skill.name))
    THEN convertInto(ensureDir(f, targetDir), skill,
                     PathJoin(targetDir, skill.name), mode)
  ELSE IF mode = "symlink" /\ isSymlinkTo(f, PathJoin(targetDir, skill.name), skill.path)
    THEN Succeed(f, Result(skill, TRUE, "skipped", PathJoin(targetDir, skill.name),
                           <<"Already linked">>))
  ELSE afterConflict(f, resolveConflict(f, skill, targetDir,
                                        PathJoin(targetDir, skill.name),
                                        conflictResolution, t),
                     skill, targetDir, PathJoin(targetDir, skill.name), mode)

\* converter.ts convertSkill; t is the value Date.now() returns
convertSkill(f, skill, targetDir, mode, conflictResolution, t) ==
  IF ~LExists(f, PathJoin(targetDir, skill.name))
    THEN convertInto(ensureDir(f, targetDir), skill,
                     PathJoin(targetDir, skill.name), mode)
  ELSE IF mode = "symlink" /\ isSymlinkTo(f, PathJoin(targetDir, skill.name), skill.path)
    THEN Succeed(f, Result(skill, TRUE, "skipped", PathJoin(targetDir, skill.name),
                           <<"Already linked">>))
  ELSE afterConflict(f, resolveConflict(f, skill, targetDir,
                                        PathJoin(targetDir, skill.name),
                                        conflictResolution, t),
                     skill, targetDir, PathJoin(targetDir, skill.name), mode)

\* the handler convertSkills pipes every convertSkill through (catchAll)
catchAll(outcome, skill, targetDir) ==
  IF outcome.exit = "succeed" THEN outcome.value[1]
  ELSE Result(skill, FALSE, "skipped", PathJoin(targetDir, skill.name), outcome.message)

RECURSIVE convertSkillsFrom(_, _, _, _, _, _, _)
\* the results of Effect.all: the result of one entry before those of the
\* entries after it
prepend(result, rest) ==
  [fs |-> rest.fs, results |-> <<result>> \o rest.results]

\* Effect.all without the catchAll: the first failure ends the batch
collectUntilFailure(o, skills, targetDir, mode, conflictResolution, times, i) ==
  IF o.exit = "fail" THEN [fs |-> o.fs, results |-> <<>>]
  ELSE prepend(o.value[1],
               convertSkillsFrom(o.fs, skills, targetDir, mode, conflictResolution,
                                 times, i + 1))

\* Effect.all after entry i ended with outcome o: its result, then the rest
collect(o, skills, targetDir, mode, conflictResolution, times, i) ==
  prepend(catchAll(o, skills[i], targetDir),
          convertSkillsFrom(o.fs, skills, targetDir, mode, conflictResolution,
                            times, i + 1))

\* converter.ts convertSkills: Effect.all runs the entries one after the
\* other; times[i] is what Date.now() returns while entry i is converted
convertSkillsFrom(f, skills, targetDir, mode, conflictResolution, times, i) ==
  IF i > Len(skills) THEN [fs |-> f, results |-> <<>>]
  ELSE collect(convertSkill(f, skills[i], targetDir, mode, conflictResolution, times[i]),
               skills, targetDir, mode, conflictResolution, times, i)

convertSkills(f, skills, targetDir, mode, conflictResolution, times) ==
  convertSkillsFrom(f, skills, targetDir, mode, conflictResolution, times, 1)

(* ------------------------------- detector ------------------------------ *)
\* fs.statSync(fullPath).size: every regular file of the model is 600 bytes
\* long
FileSize(node) == 600

\* Math.round(totalSize / 1024) for a natural totalSize
RoundKb(totalSize) == (2 * totalSize + 1024) \div 2048

RECURSIVE walkEntries(_, _)
\* detector.ts getDirectorySizeKb, the loop of walkDir over the Dirents
\* still to be looked at: a Dirent is a directory or a file by the type of
\* the entry itself, so the loop passes over a symbolic link
walkEntries(f, entries) ==
  IF entries = <<>> THEN 0
  ELSE (IF f[Head(entries)].kind = "dir"
          THEN walkEntries(f, SeqOf(Children(f, Head(entries))))
        ELSE IF f[Head(entries)].kind = "file" THEN FileSize(f[Head(entries)])
        ELSE 0)
       + walkEntries(f, Tail(entries))

\* detector.ts getDirectorySizeKb, walkDir: readdirSync follows currentPath
\* and its throw is caught
walkDir(f, currentPath) ==
  IF ~IsDir(f, currentPath) THEN 0
  ELSE walkEntries(f, SeqOf(Children(f, Follow(f, currentPath).path)))

\* detector.ts getDirectorySizeKb
getDirectorySizeKb(f, dirPath) == RoundKb(walkDir(f, dirPath))

\* the part of a DetectedSkill that comes from the directory layout
DetectedSkill(name, path, isSymlink, sizeKb) ==
  [name |-> name, path |-> path, hasSkillMd |-> TRUE, isSymlink |-> isSymlink,
   sizeKb |-> sizeKb]

\* detector.ts analyzeSkill: <<>> stands for null
analyzeSkill(f, skillPath) ==
  IF ~ExistsSync(f, PathJoin(skillPath, SKILL_MD)) THEN <<>>
  ELSE <<DetectedSkill(Basename(skillPath), skillPath,
                       LNode(f, skillPath).kind = "link",
                       getDirectorySizeKb(f, skillPath))>>

\* a nested entry that keeps its own directory name
nestedNameUnprefixed(entryName, skillName) == skillName

\* detector.ts detectSkills, line 135: `${entry.name}-${skill.name}`
nestedName(entryName, skillName) == entryName \o Dash \o skillName

\* detector.ts detectSkills, lines 133-137, for what analyzeSkill returned
renamed(analyzed, entryName) ==
  IF analyzed = <<>> THEN <<>>
  ELSE <<[analyzed[1] EXCEPT !.name = nestedName(entryName, analyzed[1].name)]>>

RECURSIVE nestedSkills(_, _, _, _, _)
\* detector.ts detectSkills, the loop over nestedEntries (the names of the
\* entries of actualPath, in readdir order)
nestedSkills(f, entryName, skillPath, actualPath, names) ==
  IF names = <<>> THEN <<>>
  ELSE (IF LNode(f, PathJoin(actualPath, Head(names))).kind # "dir" THEN <<>>
        ELSE renamed(analyzeSkill(f, PathJoin(skillPath, Head(names))), entryName))
       \o nestedSkills(f, entryName, skillPath, actualPath, Tail(names))

\* detector.ts detectSkills, lines 121-140: actualPath is the entry itself
\* or the directory its link resolves to
classify(f, entryName, skillPath, actualPath) ==
  IF ExistsSync(f, PathJoin(actualPath, SKILL_MD)) THEN analyzeSkill(f, skillPath)
  ELSE IF ~IsDir(f, actualPath) THEN <<>>
  ELSE nestedSkills(f, entryName, skillPath, actualPath,
                    SeqOf({Basename(q) : q \in Children(f, Follow(f, actualPath).path)}))

\* detector.ts detectSkills, the body of the loop over the entries of dir
detectEntry(f, dir, name) ==
  IF LNode(f, PathJoin(dir, name)).kind \notin {"dir", "link"} THEN <<>>
  ELSE IF StartsWithUnderscore(name) THEN <<>>
  ELSE IF LNode(f, PathJoin(dir, name)).kind = "link"
    THEN (IF ~RealpathOk(f, PathJoin(dir, name)) THEN <<>>
          ELSE classify(f, name, PathJoin(dir, name), Realpath(f, PathJoin(dir, name))))
  ELSE classify(f, name, PathJoin(dir, name), PathJoin(dir, name))

RECURSIVE detectEntries(_, _, _)
detectEntries(f, dir, names) ==
  IF names = <<>> THEN <<>>
  ELSE detectEntry(f, dir, Head(names)) \o detectEntries(f, dir, Tail(names))

\* detector.ts detectSkills; order lists the names of the entries of dir as
\* readdirSync returns them.  The Effect fails when readdirSync throws.
detectSkills(f, dir, order) ==
  IF ~ExistsSync(f, dir) THEN [exit |-> "succeed", skills |-> <<>>]
  ELSE IF ~IsDir(f, dir) THEN [exit |-> "fail", skills |-> <<>>]
  ELSE [exit |-> "succeed", skills |-> detectEntries(f, dir, order)]

(* ------------------------------- the world ----------------------------- *)
\* /s is the source root, /t the target root, /x holds directories that
\* links refer to
S == <<"s">>
T == <<"t">>
X == <<"x">>
A == <<"a">>
B == <<"b">>
SourceRoot == <<S>>
TargetRoot == <<T>>
Elsewhere == <<X>>

\* a skill directory: manifest, an executable script, a nested file
SkillTree(c) ==
  (<<>> :> DirNode)
  @@ (<<SKILL_MD>> :> FileNode(c, 420))
  @@ (<< <<"run">> >> :> FileNode("script", 493))
  @@ (<< <<"sub">> >> :> DirNode)
  @@ (<< <<"sub">>, <<"B">> >> :> FileNode("nested", 420))

\* what an earlier run left at the target
OldTree ==
  (<<>> :> DirNode)
  @@ (<<SKILL_MD>> :> FileNode("old", 420))
  @@ (<< <<"stale">> >> :> FileNode("stale", 420))

Graft(f, at, tree) ==
  [q \in DOMAIN f \cup {at \o r : r \in DOMAIN tree} |->
     IF IsPrefix(at, q) /\ SubSeq(q, Len(at) + 1, Len(q)) \in DOMAIN tree
       THEN tree[SubSeq(q, Len(at) + 1, Len(q))]
     ELSE f[q]]

BaseFS ==
  (<<>> :> DirNode) @@ (SourceRoot :> DirNode) @@ (Elsewhere :> DirNode)
  @@ (<<X, <<"o">> >> :> DirNode)
  @@ (<<X, <<"o">>, SKILL_MD>> :> FileNode("other", 420))

SourceKinds == {"dir", "link", "chain", "dangling", "absent"}
RootKinds == {"absent", "dir", "link", "alias"}
TargetKinds == {"absent", "dir", "relSource", "absSource", "other", "dangling", "file"}

\* the entry called name below /s: a real skill directory, a link to one
\* kept in /x, a link to such a link, a link to nothing, or nothing
WithSource(f, name, kind) ==
  LET p == PathJoin(SourceRoot, name)
      real == PathJoin(Elsewhere, name)
      hop == PathJoin(Elsewhere, name \o <<"2">>)
  IN CASE kind = "dir" -> Graft(f, p, SkillTree(name[1]))
       [] kind = "link" ->
            With(Graft(f, real, SkillTree(name[1])), p, LinkNode(AbsText(real)))
       [] kind = "chain" ->
            With(With(Graft(f, real, SkillTree(name[1])), hop, LinkNode(RelText(<<name>>))),
                 p, LinkNode(RelText(<<DotDot, X, name \o <<"2">> >>)))
       [] kind = "dangling" -> With(f, p, LinkNode(AbsText(<<X, <<"none">> >>)))
       [] kind = "absent" -> f

\* the target root: missing, a directory, a link to a directory in /x, or
\* a link to the source root
WithRoot(f, kind) ==
  CASE kind = "absent" -> f
    [] kind = "dir" -> With(f, TargetRoot, DirNode)
    [] kind = "link" ->
         With(With(f, <<X, T>>, DirNode), TargetRoot, LinkNode(AbsText(<<X, T>>)))
    [] kind = "alias" -> With(f, TargetRoot, LinkNode(RelText(<<S>>)))

\* what is at the target path of the entry called name before the call
WithTarget(f, name, kind) ==
  LET p == PathJoin(Follow(f, TargetRoot).path, name)
  IN CASE kind = "absent" -> f
       [] kind = "dir" -> Graft(f, p, OldTree)
       [] kind = "relSource" -> With(f, p, LinkNode(RelText(<<DotDot, S, name>>)))
       [] kind = "absSource" -> With(f, p, LinkNode(AbsText(PathJoin(SourceRoot, name))))
       [] kind = "other" -> With(f, p, LinkNode(AbsText(<<X, <<"o">> >>)))
       [] kind = "dangling" -> With(f, p, LinkNode(AbsText(<<X, <<"none">> >>)))
       [] kind = "file" -> With(f, p, FileNode("plain", 420))

\* the entry convertSkill is handed: DetectedSkill.name and .path
Skill(name) == [name |-> name, path |-> PathJoin(SourceRoot, name)]

Modes == {"symlink", "copy", "move"}
ConflictResolutions == {"skip", "overwrite", "backup"}
InitialClock == 9

(* -------------------------------- state -------------------------------- *)
VARIABLES
  fs,     \* the filesystem
  now,    \* the clock Date.now() reads
  calls,  \* number of calls made so far
  last,   \* the latest call: arguments, filesystem before it, outcome
  prev,   \* the call before the latest
  run     \* the runConversion in progress: its position and its locals

vars == <<fs, now, calls, last, prev, run>>

NoCall ==
  [op |-> "none", dir |-> <<>>, skills |-> <<>>, targetDir |-> <<>>, mode |-> "", cr |-> "",
   times |-> <<>>, pre |-> BaseFS, exit |-> "", results |-> <<>>, message |-> <<>>]

\* no runConversion has started
NoRun ==
  [pc |-> "idle", sourceDir |-> <<>>, targetDir |-> <<>>, skills |-> <<>>,
   finalMode |-> "", finalConflictResolution |-> "", nonInteractive |-> FALSE,
   i |-> 0, prompts |-> 0, promptedFor |-> <<>>, answer |-> "",
   modePrompts |-> 0, argsMode |-> ""]

Init ==
  /\ fs \in {WithTarget(WithRoot(WithSource(BaseFS, A, sk), rk[1]), A, rk[2]) :
               sk \in SourceKinds,
               rk \in ({"absent", "alias"} \X {"absent"})
                      \cup ({"dir", "link"} \X TargetKinds)}
  /\ now = InitialClock
  /\ calls = 0
  /\ last = NoCall
  /\ prev = NoCall
  /\ run = NoRun

\* the record of a convertSkill call with outcome o
ConvertRecord(o, skill, targetDir, mode, cr, t, pre) ==
  [op |-> "convertSkill", dir |-> <<>>, skills |-> <<skill>>, targetDir |-> targetDir,
   mode |-> mode, cr |-> cr, times |-> <<t>>, pre |-> pre, exit |-> o.exit,
   results |-> o.value, message |-> o.message]

\* the state after a call that left outcome o
Finished(o, record) ==
  /\ fs' = o.fs
  /\ last' = record
  /\ prev' = last
  /\ calls' = calls + 1

FinishedConvert(o, skill, targetDir, mode, cr, t) ==
  Finished(o, ConvertRecord(o, skill, targetDir, mode, cr, t, fs))

\* one call of convertSkill(skill, targetDir, mode, conflictResolution)
ConvertSkillCall(skill, targetDir, mode, cr, dt) ==
  /\ run' = run
  /\ calls < MaxCalls
  /\ now + dt <= MaxClock
  /\ now' = now + dt
  /\ FinishedConvert(convertSkill(fs, skill, targetDir, mode, cr, now + dt),
                     skill, targetDir, mode, cr, now + dt)

Next ==
  \E mode \in Modes, cr \in ConflictResolutions, dt \in 0..1 :
    ConvertSkillCall(Skill(A), TargetRoot, mode, cr, dt)

Spec == Init /\ [][Next]_vars

(* ------------------------- batches: convertSkills ---------------------- *)
Z == <<"z">>
\* the entries a batch is made of: /s/a, /s/b and /s/z, which never exists
BatchSkills == {Skill(A), Skill(B), Skill(Z)}

InitBatch ==
  /\ fs \in {WithTarget(WithTarget(WithRoot(WithSource(WithSource(BaseFS, A, sk), B, "dir"),
                                            rk[1]), A, rk[2]), B, rk[3]) :
               sk \in {"dir", "link", "dangling"},
               rk \in ({"absent"} \X {"absent"} \X {"absent"})
                      \cup ({"dir"} \X {"absent", "dir"} \X {"absent", "dir", "relSource"})}
  /\ now = InitialClock
  /\ calls = 0
  /\ last = NoCall
  /\ prev = NoCall
  /\ run = NoRun

\* the record of a convertSkills call that returned the results of b
BatchRecord(b, skills, targetDir, mode, cr, times, pre) ==
  [op |-> "convertSkills", dir |-> <<>>, skills |-> skills, targetDir |-> targetDir,
   mode |-> mode, cr |-> cr, times |-> times, pre |-> pre, exit |-> "succeed",
   results |-> b.results, message |-> <<>>]

FinishedBatch(b, skills, targetDir, mode, cr, times) ==
  Finished(b, BatchRecord(b, skills, targetDir, mode, cr, times, fs))

\* one call of convertSkills(skills, targetDir, mode, conflictResolution);
\* the clock does not go back while the entries are converted
ConvertSkillsCall(skills, targetDir, mode, cr, times) ==
  /\ run' = run
  /\ calls = 0
  /\ \A i \in 1..Len(times) : times[i] >= (IF i = 1 THEN now ELSE times[i - 1])
  /\ now' = (IF times = <<>> THEN now ELSE times[Len(times)])
  /\ FinishedBatch(convertSkills(fs, skills, targetDir, mode, cr, times),
                   skills, targetDir, mode, cr, times)

\* the clock readings of one batch: its entries are converted within the
\* same reading or the next one
BatchClocks == {t \in {InitialClock, InitialClock + 1} : t <= MaxClock}

NextBatch ==
  \E n \in 0..MaxBatch :
    \E skills \in [1..n -> BatchSkills], times \in [1..n -> BatchClocks],
       mode \in Modes, cr \in ConflictResolutions :
      ConvertSkillsCall(skills, TargetRoot, mode, cr, times)

SpecBatch == InitBatch /\ [][NextBatch]_vars

(* -------------------------- scans: detectSkills ------------------------ *)
G == <<"g">>
U == <<"_", "g">>
\* a directory name that is also the name given to /s/a/b
AB == <<"a", "-", "b">>

\* a skill directory that has a skill directory of its own inside
SkillWithNested(c) ==
  SkillTree(c)
  @@ (<<B>> :> DirNode)
  @@ (<<B, SKILL_MD>> :> FileNode("inner", 420))

\* a grouping directory: b is a skill, c has a manifest only one level
\* further down, e is a link to b, f is a file
GroupTree ==
  (<<>> :> DirNode)
  @@ (<<B>> :> DirNode)
  @@ (<<B, SKILL_MD>> :> FileNode("b", 420))
  @@ (<< <<"c">> >> :> DirNode)
  @@ (<< <<"c">>, <<"d">> >> :> DirNode)
  @@ (<< <<"c">>, <<"d">>, SKILL_MD>> :> FileNode("d", 420))
  @@ (<< <<"e">> >> :> LinkNode(RelText(<<B>>)))
  @@ (<< <<"f">> >> :> FileNode("notes", 420))

ChildKinds ==
  {"absent", "skill", "group", "empty", "file", "linkskill", "linkgroup", "dangling",
   "manifestdir"}

\* the first-level child of /s called name
WithChild(f, name, kind) ==
  LET p == PathJoin(SourceRoot, name)
      real == PathJoin(Elsewhere, name)
  IN CASE kind = "absent" -> f
       [] kind = "skill" -> Graft(f, p, SkillWithNested(name[1]))
       [] kind = "group" -> Graft(f, p, GroupTree)
       [] kind = "empty" -> With(f, p, DirNode)
       [] kind = "manifestdir" -> With(With(f, p, DirNode), PathJoin(p, SKILL_MD), DirNode)
       [] kind = "file" -> With(f, p, FileNode("plain", 420))
       [] kind = "linkskill" ->
            With(Graft(f, real, SkillWithNested(name[1])), p, LinkNode(AbsText(real)))
       [] kind = "linkgroup" ->
            With(Graft(f, real, GroupTree), p, LinkNode(RelText(<<DotDot, X, name>>)))
       [] kind = "dangling" -> With(f, p, LinkNode(AbsText(<<X, <<"none">> >>)))

InitDetect ==
  /\ fs \in {WithChild(WithChild(WithChild(WithChild(BaseFS, A, ka), G, kg), U, ku), AB, kab) :
               ka \in {"absent", "skill", "file", "dangling", "group"},
               kg \in ChildKinds,
               ku \in {"absent", "skill", "group", "linkskill"},
               kab \in {"absent", "skill"}}
  /\ now = InitialClock
  /\ calls = 0
  /\ last = NoCall
  /\ prev = NoCall
  /\ run = NoRun

\* the roots scanned: /s, a path that does not exist, a regular file
ScanRoots == {SourceRoot, <<X, <<"none">> >>, <<X, <<"o">>, SKILL_MD>>}

\* the names readdirSync(dir) returns, in any order
EntryNames(f, dir) ==
  IF IsDir(f, dir) THEN {Basename(q) : q \in Children(f, Follow(f, dir).path)} ELSE {}
Orders(names) ==
  {o \in [1..Cardinality(names) -> names] : \A i, j \in DOMAIN o : o[i] = o[j] => i = j}

\* the record of a detectSkills call with outcome d
DetectRecord(d, dir, pre) ==
  [op |-> "detectSkills", dir |-> dir, skills |-> <<>>, targetDir |-> <<>>,
   mode |-> "", cr |-> "", times |-> <<>>, pre |-> pre, exit |-> d.exit,
   results |-> d.skills, message |-> <<>>]

FinishedDetect(d, dir) ==
  /\ fs' = fs
  /\ last' = DetectRecord(d, dir, fs)
  /\ prev' = last
  /\ calls' = calls + 1
  /\ now' = now

\* one call of detectSkills(dir)
DetectSkillsCall(dir, order) ==
  /\ run' = run
  /\ calls = 0
  /\ FinishedDetect(detectSkills(fs, dir, order), dir)

NextDetect ==
  \E dir \in ScanRoots : \E order \in Orders(EntryNames(fs, dir)) :
    DetectSkillsCall(dir, order)

SpecDetect == InitDetect /\ [][NextDetect]_vars

(* ------------------ scans of a target root after backups --------------- *)
UL == <<"_", "l">>

\* a target root that may hold a first-level link whose name starts with "_"
\* and which leads to the skill directory /x/o
WithReservedLink(f, present) ==
  IF present /\ IsDir(f, TargetRoot)
  THEN With(f, PathJoin(Follow(f, TargetRoot).path, UL), LinkNode(AbsText(<<X, <<"o">> >>)))
  ELSE f

InitRescan ==
  /\ fs \in {WithReservedLink(WithTarget(WithRoot(WithSource(BaseFS, A, sk), rk), A, tk), ul) :
               sk \in {"dir", "link"}, rk \in {"dir", "link"}, tk \in TargetKinds,
               ul \in BOOLEAN}
  /\ now = InitialClock
  /\ calls = 0
  /\ last = NoCall
  /\ prev = NoCall
  /\ run = NoRun

\* detectSkills(targetDir) after a conversion into targetDir
RescanCall(targetDir, order) ==
  /\ run' = run
  /\ last.op = "convertSkill"
  /\ FinishedDetect(detectSkills(fs, targetDir, order), targetDir)

NextRescan ==
  \/ \E mode \in Modes, dt \in 0..1 :
       ConvertSkillCall(Skill(A), TargetRoot, mode, "backup", dt)
  \/ \E order \in Orders(EntryNames(fs, TargetRoot)) : RescanCall(TargetRoot, order)

SpecRescan == InitRescan /\ [][NextRescan]_vars

(* --------------------------- runs: runConversion ----------------------- *)
\* index.ts runConversion, lines 141-160: the pre-scan takes skill for a
\* conflict
preScanConflict(f, skill, targetDir) ==
  IF ~ExistsSync(f, PathJoin(targetDir, skill.name)) THEN FALSE
  ELSE IF LNode(f, PathJoin(targetDir, skill.name)).kind # "link" THEN TRUE
  ELSE PathResolve(Parent(PathJoin(targetDir, skill.name)),
                   LNode(f, PathJoin(targetDir, skill.name)).text)
         # Normalize(<<>>, skill.path)

\* index.ts runConversion, line 132: promptConversionMode is called
promptsForMode(mode, nonInteractive) == ~nonInteractive /\ mode = ""

\* index.ts runConversion, lines 131-135; modeAnswer is what
\* promptConversionMode returns when it is called
finalModeOf(mode, nonInteractive, modeAnswer) ==
  IF promptsForMode(mode, nonInteractive) THEN modeAnswer
  ELSE IF mode = "" THEN "symlink"
  ELSE mode

\* index.ts runConversion, lines 110-138, for the outcome d of detectSkills:
\* the run ends when the scan fails or finds nothing, asks for the mode
\* when it has none and is interactive, and skips the pre-scan when it is
\* not interactive
started(d, sourceDir, targetDir, mode, conflictResolution, nonInteractive, modeAnswer) ==
  [pc |-> IF d.exit = "fail" THEN "failed"
          ELSE IF d.skills = <<>> THEN "done"
          ELSE IF nonInteractive THEN "convert" ELSE "prescan",
   sourceDir |-> sourceDir, targetDir |-> targetDir, skills |-> d.skills,
   finalMode |-> finalModeOf(mode, nonInteractive, modeAnswer),
   finalConflictResolution |-> IF conflictResolution = "" THEN "skip" ELSE conflictResolution,
   nonInteractive |-> nonInteractive, i |-> 1, prompts |-> 0, promptedFor |-> <<>>,
   answer |-> "",
   modePrompts |-> IF d.exit = "succeed" /\ d.skills # <<>>
                      /\ promptsForMode(mode, nonInteractive)
                   THEN 1 ELSE 0,
   argsMode |-> mode]

\* a pre-scan that goes on with the next entry after a prompt
afterPromptContinue(r, answer) ==
  [r EXCEPT !.finalConflictResolution = answer, !.answer = answer, !.prompts = @ + 1,
            !.pc = "prescan", !.i = @ + 1]

\* index.ts runConversion, lines 158-159: the answer becomes the policy and
\* the pre-scan ends
afterPrompt(r, answer) ==
  [r EXCEPT !.finalConflictResolution = answer, !.answer = answer, !.prompts = @ + 1,
            !.pc = "convert"]

\* index.ts runConversion, one iteration of the loop of lines 141-161
preScanned(r, f) ==
  IF r.i > Len(r.skills) THEN [r EXCEPT !.pc = "convert"]
  ELSE IF preScanConflict(f, r.skills[r.i], r.targetDir)
    THEN [r EXCEPT !.pc = "prompt", !.promptedFor = r.skills[r.i].name]
  ELSE [r EXCEPT !.i = @ + 1]

InitRun ==
  /\ fs \in {WithTarget(WithTarget(WithRoot(WithSource(WithSource(BaseFS, A, k[1]), B, k[2]),
                                            k[3]), A, k[4]), B, k[5]) :
               k \in ({"dir", "link"} \X {"dir", "absent"} \X {"dir"}
                        \X TargetKinds \X {"absent", "dir"})
                     \cup ({"dir", "link"} \X {"dir", "absent"} \X {"absent"}
                             \X {"absent"} \X {"absent"})}
  /\ now = InitialClock
  /\ calls = 0
  /\ last = NoCall
  /\ prev = NoCall
  /\ run = NoRun

\* runConversion is called and scans sourceDir
RunConversionCall(sourceDir, targetDir, mode, conflictResolution, nonInteractive, order, modeAnswer) ==
  /\ run.pc = "idle"
  /\ run' = started(detectSkills(fs, sourceDir, order), sourceDir, targetDir, mode,
                    conflictResolution, nonInteractive, modeAnswer)
  /\ UNCHANGED <<fs, now, calls, last, prev>>

\* the pre-scan looks at its next entry
PreScanStep ==
  /\ run.pc = "prescan"
  /\ run' = preScanned(run, fs)
  /\ UNCHANGED <<fs, now, calls, last, prev>>

\* promptConflictResolution returns the user's answer
PromptAnswer(answer) ==
  /\ run.pc = "prompt"
  /\ run' = afterPrompt(run, answer)
  /\ UNCHANGED <<fs, now, calls, last, prev>>

\* index.ts runConversion, lines 164-166: the entries are converted
RunConvert(times) ==
  /\ run.pc = "convert"
  /\ \A i \in 1..Len(times) : times[i] >= (IF i = 1 THEN now ELSE times[i - 1])
  /\ now' = times[Len(times)]
  /\ run' = [run EXCEPT !.pc = "done"]
  /\ FinishedBatch(convertSkills(fs, run.skills, run.targetDir, run.finalMode,
                                 run.finalConflictResolution, times),
                   run.skills, run.targetDir, run.finalMode,
                   run.finalConflictResolution, times)

NextRun ==
  \/ \E mode \in Modes, cr \in ConflictResolutions, nonInteractive \in BOOLEAN :
       \E order \in Orders(EntryNames(fs, SourceRoot)), modeAnswer \in Modes :
         RunConversionCall(SourceRoot, TargetRoot, mode, cr, nonInteractive, order,
                           modeAnswer)
  \/ PreScanStep
  \/ \E answer \in ConflictResolutions : PromptAnswer(answer)
  \/ \E times \in [1..Len(run.skills) -> BatchClocks] : RunConvert(times)

SpecRun == InitRun /\ [][NextRun]_vars

(* ------------------------------ runs of main --------------------------- *)
\* index.ts main, lines 259-285: the mode runConversion is called with;
\* "" stands for a command line without --mode
mainMode(argsMode) == IF argsMode = "" THEN "symlink" ELSE argsMode

\* index.ts main, lines 259-285: the policy runConversion is called with
mainConflictResolution(argsConflictResolution) ==
  IF argsConflictResolution = "" THEN "skip" ELSE argsConflictResolution

\* index.ts main with a direction that is not sync: one runConversion from
\* the command line's arguments
MainCall(argsMode, argsConflictResolution, argsNonInteractive, order, modeAnswer) ==
  /\ run.pc = "idle"
  /\ run' = [started(detectSkills(fs, SourceRoot, order), SourceRoot, TargetRoot,
                     mainMode(argsMode), mainConflictResolution(argsConflictResolution),
                     argsNonInteractive, modeAnswer)
             EXCEPT !.argsMode = argsMode]
  /\ UNCHANGED <<fs, now, calls, last, prev>>

NextMain ==
  \/ \E argsMode \in Modes \cup {""}, argsCr \in ConflictResolutions \cup {""},
        argsNonInteractive \in BOOLEAN :
       \E order \in Orders(EntryNames(fs, SourceRoot)), modeAnswer \in Modes :
         MainCall(argsMode, argsCr, argsNonInteractive, order, modeAnswer)
  \/ PreScanStep
  \/ \E answer \in ConflictResolutions : PromptAnswer(answer)
  \/ \E times \in [1..Len(run.skills) -> BatchClocks] : RunConvert(times)

SpecMain == InitRun /\ [][NextMain]_vars

(* --------------------- runs over grouped source roots ------------------ *)
\* /s holds a, a skill or a grouping directory with the skill b inside, and
\* maybe the skill a-b and the skill g; /t is a directory that may hold
\* something called a-b
InitGroups ==
  /\ fs \in {WithTarget(WithRoot(WithChild(WithChild(WithChild(BaseFS, A, ka), AB, kab), G, kg),
                                  "dir"), AB, tk) :
               ka \in {"skill", "group"}, kab \in {"absent", "skill"},
               kg \in {"absent", "skill"}, tk \in {"absent", "dir"}}
  /\ now = InitialClock
  /\ calls = 0
  /\ last = NoCall
  /\ prev = NoCall
  /\ run = NoRun

SpecGroups == InitGroups /\ [][NextRun]_vars

(* ------------------------- the two passes of a sync ------------------- *)
\* the entry the second pass of a sync is handed: the one detected at
\* /t/name, to be converted into /s
SkillBack(name) == [name |-> name, path |-> PathJoin(TargetRoot, name)]

InitSync ==
  /\ fs \in {WithTarget(WithRoot(WithSource(BaseFS, A, sk), "dir"), A, tk) :
               sk \in {"dir", "link"}, tk \in {"absent", "dir", "relSource"}}
  /\ now = InitialClock
  /\ calls = 0
  /\ last = NoCall
  /\ prev = NoCall
  /\ run = NoRun

\* index.ts main, lines 259-276: an entry of /s is converted into /t, and
\* an entry that detectSkills finds in /t is converted into /s
NextSync ==
  \/ \E mode \in Modes, cr \in ConflictResolutions, dt \in 0..1 :
       ConvertSkillCall(Skill(A), TargetRoot, mode, cr, dt)
  \/ \E mode \in Modes, cr \in ConflictResolutions, dt \in 0..1 :
       /\ A \in EntryNames(fs, TargetRoot)
       /\ detectEntry(fs, TargetRoot, A) # <<>>
       /\ ConvertSkillCall(SkillBack(A), SourceRoot, mode, cr, dt)

SpecSync == InitSync /\ [][NextSync]_vars

(* -------------------- entries with links inside them ------------------- *)
\* a skill directory with links inside: sub/up leads back to the entry
\* itself, p and q lead to each other
CyclicTree(c) ==
  SkillTree(c)
  @@ (<< <<"sub">>, <<"up">> >> :> LinkNode(RelText(<<DotDot>>)))
  @@ (<< <<"p">> >> :> LinkNode(RelText(<< <<"q">> >>)))
  @@ (<< <<"q">> >> :> LinkNode(RelText(<< <<"p">> >>)))

\* the entry called name below /s is such a directory, or a link to one
\* kept in /x
WithCyclicSource(f, name, linked) ==
  IF linked
  THEN With(Graft(f, PathJoin(Elsewhere, name), CyclicTree(name[1])),
            PathJoin(SourceRoot, name), LinkNode(AbsText(PathJoin(Elsewhere, name))))
  ELSE Graft(f, PathJoin(SourceRoot, name), CyclicTree(name[1]))

InitCycles ==
  /\ fs \in {WithTarget(WithRoot(WithCyclicSource(BaseFS, A, linked), rk[1]), A, rk[2]) :
               linked \in BOOLEAN,
               rk \in {<<"absent", "absent">>, <<"dir", "absent">>, <<"dir", "dir">>}}
  /\ now = InitialClock
  /\ calls = 0
  /\ last = NoCall
  /\ prev = NoCall
  /\ run = NoRun

\* conversions of the entry, a scan of the source root, and a scan of the
\* target root after a conversion
NextCycles ==
  \/ \E mode \in Modes, cr \in ConflictResolutions, dt \in 0..1 :
       ConvertSkillCall(Skill(A), TargetRoot, mode, cr, dt)
  \/ \E order \in Orders(EntryNames(fs, SourceRoot)) : DetectSkillsCall(SourceRoot, order)
  \/ \E order \in Orders(EntryNames(fs, TargetRoot)) : RescanCall(TargetRoot, order)

SpecCycles == InitCycles /\ [][NextCycles]_vars

(* ------------------------ checks: validateSkill ------------------------ *)
MissingNameAndDescription == "Missing name and description in frontmatter"
RulesWithoutAgentsMd == "Has rules/ directory but no AGENTS.md - may need to run build"

\* JavaScript's !value for a frontmatter field: the field is absent or holds
\* the empty string
Falsy(frontmatter, field) ==
  field \notin DOMAIN frontmatter \/ frontmatter[field] = ""

\* a validateSkill that only looks at the name
warnOnMissingName(frontmatter) ==
  IF Falsy(frontmatter, "name") THEN <<MissingNameAndDescription>> ELSE <<>>

\* converter.ts validateSkill, lines 210-212
frontmatterWarnings(frontmatter) ==
  IF Falsy(frontmatter, "name") /\ Falsy(frontmatter, "description")
  THEN <<MissingNameAndDescription>> ELSE <<>>

\* converter.ts validateSkill, lines 214-218
rulesWarnings(skill) ==
  IF skill.hasRules /\ ~skill.hasAgentsMd THEN <<RulesWithoutAgentsMd>> ELSE <<>>

\* converter.ts validateSkill, lines 220-223
validated(warnings) == [valid |-> Len(warnings) = 0, warnings |-> warnings]

\* converter.ts validateSkill
validateSkill(skill) ==
  validated(frontmatterWarnings(skill.frontmatter) \o rulesWarnings(skill))

\* the frontmatter mappings: each of name and description is absent, empty
\* or a text; version stands for the other fields
Frontmatters ==
  UNION {{fm \in [fields -> {"", "text"}] : "version" \in fields => fm["version"] = "text"} :
           fields \in SUBSET {"name", "description", "version"}}

\* the entries handed to validateSkill
ValidatedSkills ==
  {[name |-> A, path |-> PathJoin(SourceRoot, A), frontmatter |-> fm,
    hasRules |-> r, hasAgentsMd |-> m] :
     fm \in Frontmatters, r \in BOOLEAN, m \in BOOLEAN}

InitValidate ==
  /\ fs = BaseFS
  /\ now = InitialClock
  /\ calls = 0
  /\ last = NoCall
  /\ prev = NoCall
  /\ run = NoRun

\* one call of validateSkill(skill)
ValidateSkillCall(skill) ==
  /\ calls < MaxCalls
  /\ last' = [NoCall EXCEPT !.op = "validateSkill", !.skills = <<skill>>,
                            !.exit = "succeed", !.results = <<validateSkill(skill)>>]
  /\ prev' = last
  /\ calls' = calls + 1
  /\ UNCHANGED <<fs, now, run>>

NextValidate == \E skill \in ValidatedSkills : ValidateSkillCall(skill)

SpecValidate == InitValidate /\ [][NextValidate]_vars

(* ------------------------- vocabulary of the claims -------------------- *)
IsConvert(c) == c.op = "convertSkill"
SkillOf(c) == c.skills[1]
SourcePathOf(c) == SkillOf(c).path
TargetPathOf(c) == PathJoin(c.targetDir, SkillOf(c).name)
Returned(c) == c.results[1]
\* the call returned a result (the Effect did not fail)
Succeeded(c) == c.exit = "succeed" /\ Len(c.results) = 1
\* the tree a path gives access to, links followed
TreeAt(f, p) == Subtree(f, Follow(f, p).path)
\* the tree stored at a path itself: for a link, the link alone
TreeOf(f, p) == Subtree(f, NoFollow(f, p).path)
\* the "Already linked" short-circuit applies to the call
ShortCircuits(c) ==
  /\ c.mode = "symlink"
  /\ LExists(c.pre, TargetPathOf(c))
  /\ isSymlinkTo(c.pre, TargetPathOf(c), SourcePathOf(c))
SameArguments(c, d) ==
  /\ c.skills = d.skills /\ c.targetDir = d.targetDir
  /\ c.mode = d.mode /\ c.cr = d.cr
\* relative paths of the regular files of a tree
FilesOf(tree) == {r \in DOMAIN tree : tree[r].kind = "file"}

(* -------------------------------- claims ------------------------------- *)
\* C1: two successive convertSkill calls with mode 'symlink' and identical
\* arguments, on an existing source and an initially absent target, return
\* 'symlinked' and then skipped/'Already linked'; the second call changes
\* nothing on disk and the target resolves to the same place as before.
C1_LinkTwiceIsIdempotent ==
  (/\ IsConvert(prev) /\ IsConvert(last) /\ SameArguments(prev, last)
   /\ prev.mode = "symlink"
   /\ ExistsSync(prev.pre, SourcePathOf(prev))
   /\ ~LExists(prev.pre, TargetPathOf(prev)))
  => /\ Succeeded(prev) /\ Returned(prev).success
     /\ Returned(prev).action = "symlinked"
     /\ Succeeded(last)
     /\ Returned(last) = Result(SkillOf(last), TRUE, "skipped", TargetPathOf(last),
                                <<"Already linked">>)
     /\ fs = last.pre
     /\ Follow(fs, TargetPathOf(last)) = Follow(last.pre, TargetPathOf(last))

\* C3 as amended: convertSkill never returns a result with success=false;
\* it either succeeds with a result whose success is true, or its Effect
\* fails with the Error "Failed to convert skill <name>: ..." and no result.
C3_FailureIsAnEffectError ==
  IsConvert(last) =>
    \/ Succeeded(last) /\ Returned(last).success /\ last.message = <<>>
    \/ /\ last.exit = "fail" /\ last.results = <<>>
       /\ last.message = FailureMessage(SkillOf(last))

C3_Witness ==
  /\ IsConvert(last) /\ last.exit = "fail"
  /\ ~LExists(last.pre, SourcePathOf(last))

\* C3 as stated: convertSkill never fails; it always yields a result, and an
\* error shows as success=false with the error field set.
C3_NeverFails ==
  IsConvert(last) =>
    /\ Succeeded(last)
    /\ (~LExists(last.pre, SourcePathOf(last)) /\ ~LExists(last.pre, TargetPathOf(last))
          => ~Returned(last).success /\ Returned(last).error # <<>>)

\* C4: with policy 'skip', an existing target and no 'Already linked'
\* short-circuit, convertSkill returns success, 'skipped', 'Already exists'
\* for every mode and leaves the whole filesystem unchanged.
C4_SkipLeavesEverything ==
  (/\ IsConvert(last) /\ last.cr = "skip"
   /\ LExists(last.pre, TargetPathOf(last))
   /\ ~ShortCircuits(last))
  => /\ Succeeded(last)
     /\ Returned(last) = Result(SkillOf(last), TRUE, "skipped", TargetPathOf(last),
                                <<"Already exists">>)
     /\ fs = last.pre

C4_Witness ==
  /\ IsConvert(last) /\ last.cr = "skip" /\ last.mode = "copy"
  /\ LExists(last.pre, TargetPathOf(last))
  /\ LNode(last.pre, TargetPathOf(last)).kind = "dir"
  /\ Succeeded(last) /\ Returned(last).error = <<"Already exists">>

BackupPathOf(c) ==
  PathJoin(PathJoin(c.targetDir, BackupName),
           SkillOf(c).name \o Dash \o Decimal(c.times[1]))
\* the target gives access to the content the source gave access to
HoldsSource(c, f) ==
  /\ ExistsSync(f, TargetPathOf(c))
  /\ ExistsSync(c.pre, SourcePathOf(c))
  /\ TreeAt(f, TargetPathOf(c)) = TreeAt(c.pre, SourcePathOf(c))

\* C5: when a target exists (and is not left alone as 'Already linked') and
\* the call succeeds with policy 'backup', targetDir/_backup holds an entry
\* <name>-<decimal timestamp> with exactly what was at the target before,
\* the reported action is the mode's, and targetDir/name holds the new
\* source content.
C5_BackupThenConvert ==
  (/\ IsConvert(last) /\ last.cr = "backup"
   /\ LExists(last.pre, TargetPathOf(last))
   /\ ~ShortCircuits(last)
   /\ Succeeded(last))
  => /\ LExists(fs, BackupPathOf(last))
     /\ TreeOf(fs, BackupPathOf(last)) = TreeOf(last.pre, TargetPathOf(last))
     /\ Returned(last).action = ActionOf(last.mode)
     /\ HoldsSource(last, fs)

\* C6: when a real directory is at the target and the call succeeds with
\* policy 'overwrite', the target holds exactly the source's content, no
\* file of the previous target remains, and the action is the mode's.
C6_OverwriteReplacesTarget ==
  (/\ IsConvert(last) /\ last.cr = "overwrite"
   /\ LExists(last.pre, TargetPathOf(last))
   /\ LNode(last.pre, TargetPathOf(last)).kind = "dir"
   /\ Succeeded(last))
  => /\ Returned(last).action = ActionOf(last.mode)
     /\ HoldsSource(last, fs)
     /\ << <<"stale">> >> \notin DOMAIN TreeAt(fs, TargetPathOf(last))

\* a successful move of a source that is a real directory
MovedRealDirectory ==
  /\ IsConvert(last) /\ last.mode = "move"
  /\ Succeeded(last) /\ Returned(last).success /\ Returned(last).action # "skipped"
  /\ LExists(last.pre, SourcePathOf(last))
  /\ LNode(last.pre, SourcePathOf(last)).kind = "dir"

\* C7: after a successful 'move' of a source that is a real directory the
\* source path no longer exists, the target holds every file of the
\* original source tree, and the action is 'moved'.
C7_MoveRemovesSource ==
  MovedRealDirectory =>
    /\ ~LExists(fs, SourcePathOf(last))
    /\ Returned(last).action = "moved"
    /\ ExistsSync(fs, TargetPathOf(last))
    /\ \A r \in FilesOf(TreeOf(last.pre, SourcePathOf(last))) :
         /\ r \in DOMAIN TreeAt(fs, TargetPathOf(last))
         /\ TreeAt(fs, TargetPathOf(last))[r] = TreeOf(last.pre, SourcePathOf(last))[r]

C7_Witness ==
  /\ MovedRealDirectory
  /\ ~LExists(last.pre, TargetPathOf(last))
  /\ << <<"sub">>, <<"B">> >> \in FilesOf(TreeOf(last.pre, SourcePathOf(last)))

\* a successful copy into a target path where nothing was
CopiedIntoAbsentTarget ==
  /\ IsConvert(last) /\ last.mode = "copy" /\ Succeeded(last)
  /\ ~LExists(last.pre, TargetPathOf(last))

\* C8: after a successful 'copy' into an absent target the target is a real
\* directory and every regular file of the resolved source tree, at any
\* depth, is a file with the same relative path and content under the
\* target; the source tree is unchanged.
C8_CopyRoundTrip ==
  CopiedIntoAbsentTarget =>
    /\ LExists(fs, TargetPathOf(last))
    /\ LNode(fs, TargetPathOf(last)).kind = "dir"
    /\ \A r \in FilesOf(TreeAt(last.pre, SourcePathOf(last))) :
         /\ r \in DOMAIN TreeOf(fs, TargetPathOf(last))
         /\ TreeOf(fs, TargetPathOf(last))[r].kind = "file"
         /\ TreeOf(fs, TargetPathOf(last))[r].content
              = TreeAt(last.pre, SourcePathOf(last))[r].content
    /\ TreeAt(fs, SourcePathOf(last)) = TreeAt(last.pre, SourcePathOf(last))
    /\ TreeOf(fs, SourcePathOf(last)) = TreeOf(last.pre, SourcePathOf(last))

C8_Witness ==
  /\ CopiedIntoAbsentTarget
  /\ LNode(last.pre, SourcePathOf(last)).kind = "link"
  /\ << <<"sub">>, <<"B">> >> \in FilesOf(TreeOf(fs, TargetPathOf(last)))

\* a successful copy or move
CopiedOrMoved ==
  /\ IsConvert(last) /\ last.mode \in {"copy", "move"}
  /\ Succeeded(last) /\ Returned(last).action \in {"copied", "moved"}

\* C9: after a successful 'copy' or 'move', every regular file of the source
\* tree has an executable bit at the target if and only if it had one at
\* the source.
C9_ExecutableBitPreserved ==
  CopiedOrMoved =>
    \A r \in FilesOf(TreeAt(last.pre, SourcePathOf(last))) :
      /\ r \in DOMAIN TreeAt(fs, TargetPathOf(last))
      /\ TreeAt(fs, TargetPathOf(last))[r].kind = "file"
      /\ HasExecBit(TreeAt(fs, TargetPathOf(last))[r].mode)
           <=> HasExecBit(TreeAt(last.pre, SourcePathOf(last))[r].mode)

C9_Witness ==
  /\ CopiedOrMoved /\ last.mode = "copy"
  /\ \E r, q \in FilesOf(TreeAt(fs, TargetPathOf(last))) :
       /\ HasExecBit(TreeAt(fs, TargetPathOf(last))[r].mode)
       /\ ~HasExecBit(TreeAt(fs, TargetPathOf(last))[q].mode)

IsBatch(c) == c.op = "convertSkills"
RECURSIVE StateBefore(_, _)
\* the filesystem entry i of the batch c finds: what the entries before it,
\* each converted on its own, leave
StateBefore(c, i) ==
  IF i = 1 THEN c.pre
  ELSE convertSkill(StateBefore(c, i - 1), c.skills[i - 1], c.targetDir, c.mode,
                    c.cr, c.times[i - 1]).fs
\* entry i of the batch c converted on its own
Alone(c, i) ==
  convertSkill(StateBefore(c, i), c.skills[i], c.targetDir, c.mode, c.cr, c.times[i])

\* C2: convertSkills over n entries succeeds with exactly n results, result
\* i for entry i; an entry whose conversion fails yields success=false,
\* 'skipped', targetPath=targetDir/name and a non-empty error, and every
\* other entry, also after a failure, gets the result its own convertSkill
\* call returns.
C2_BatchIsolation ==
  IsBatch(last) =>
    /\ last.exit = "succeed"
    /\ Len(last.results) = Len(last.skills)
    /\ \A i \in 1..Len(last.skills) :
         /\ last.results[i].skill = last.skills[i]
         /\ Alone(last, i).exit = "fail" =>
              /\ last.results[i] =
                   Result(last.skills[i], FALSE, "skipped",
                          PathJoin(last.targetDir, last.skills[i].name),
                          last.results[i].error)
              /\ last.results[i].error # <<>>
         /\ Alone(last, i).exit = "succeed" =>
              last.results[i] = Alone(last, i).value[1]
    /\ fs = StateBefore(last, Len(last.skills) + 1)

C2_Witness ==
  /\ IsBatch(last) /\ Len(last.skills) = 2
  /\ ~last.results[1].success
  /\ last.results[2].success /\ last.results[2].action = "copied"

(* ------------------------------ C10 ----------------------------------- *)
IsScan(c) == c.op = "detectSkills" /\ c.exit = "succeed"

\* the first-level real directories of the scanned root
FirstLevelDirectories(c) ==
  {n \in EntryNames(c.pre, c.dir) : LNode(c.pre, PathJoin(c.dir, n)).kind = "dir"}

\* the entries of the result that lie in or below the first-level entry g
EntriesUnder(c, g) ==
  {i \in 1..Len(c.results) : IsPrefix(PathJoin(c.dir, g), c.results[i].path)}

HasManifest(c, p) == ExistsSync(c.pre, PathJoin(p, SKILL_MD))

\* the immediate subdirectories of g that directly contain SKILL.md
SkillSubdirectories(c, g) ==
  {n \in EntryNames(c.pre, PathJoin(c.dir, g)) :
     /\ LNode(c.pre, PathJoin(PathJoin(c.dir, g), n)).kind = "dir"
     /\ HasManifest(c, PathJoin(PathJoin(c.dir, g), n))}

\* what the scan yields for the first-level directory g
GroupingRule(c, g) ==
  IF HasManifest(c, PathJoin(c.dir, g))
  THEN /\ Cardinality(EntriesUnder(c, g)) = 1
       /\ \A i \in EntriesUnder(c, g) :
            /\ c.results[i].name = g
            /\ c.results[i].path = PathJoin(c.dir, g)
  ELSE /\ \A n \in SkillSubdirectories(c, g) :
            Cardinality({i \in EntriesUnder(c, g) :
              /\ c.results[i].path = PathJoin(PathJoin(c.dir, g), n)
              /\ c.results[i].name = g \o Dash \o n}) = 1
       /\ \A i \in EntriesUnder(c, g) :
            \E n \in SkillSubdirectories(c, g) :
              /\ c.results[i].path = PathJoin(PathJoin(c.dir, g), n)
              /\ c.results[i].name = g \o Dash \o n

\* C10 as stated: for every first-level directory G, a manifest directly in
\* G yields exactly one entry named G and nothing from its subdirectories;
\* otherwise one entry "G-S" per immediate subdirectory S with a manifest,
\* nothing for G itself and nothing deeper.
C10_GroupingForEveryDirectory ==
  IsScan(last) => \A g \in FirstLevelDirectories(last) : GroupingRule(last, g)

\* C10 amended: the rule holds for every first-level directory whose name
\* does not start with "_"; a directory whose name starts with "_" yields
\* no entry at all, with or without a manifest.
C10_GroupingDetection ==
  IsScan(last) =>
    \A g \in FirstLevelDirectories(last) :
      IF StartsWithUnderscore(g) THEN EntriesUnder(last, g) = {}
      ELSE GroupingRule(last, g)

\* a scan of a root holding a skill directory with a nested skill inside, or
\* a grouping directory with a skill subdirectory, next to an underscore
\* directory that has a manifest
C10_Witness ==
  /\ IsScan(last)
  /\ G \in FirstLevelDirectories(last)
  /\ ~HasManifest(last, PathJoin(last.dir, G))
  /\ SkillSubdirectories(last, G) # {}
  /\ EntriesUnder(last, G) # {}
  /\ A \in FirstLevelDirectories(last)
  /\ HasManifest(last, PathJoin(last.dir, A))
  /\ HasManifest(last, PathJoin(PathJoin(last.dir, A), B))
  /\ U \in FirstLevelDirectories(last)
  /\ HasManifest(last, PathJoin(last.dir, U))

(* ------------------------------ C11 ----------------------------------- *)
\* C11: detectSkills never fails: a root that does not exist and a root
\* that exists but is not a directory both yield the empty list, and a
\* first-level child that is a dangling link yields no entry and no error.
C11_DetectNeverFails ==
  last.op = "detectSkills" =>
    /\ last.exit = "succeed"
    /\ ~IsDir(last.pre, last.dir) => last.results = <<>>
    /\ \A n \in EntryNames(last.pre, last.dir) :
         (/\ LNode(last.pre, PathJoin(last.dir, n)).kind = "link"
          /\ ~ExistsSync(last.pre, PathJoin(last.dir, n)))
         => \A i \in 1..Len(last.results) :
              ~IsPrefix(PathJoin(last.dir, n), last.results[i].path)

(* ------------------------------ C12 ----------------------------------- *)
\* a regular file is reachable at p/SKILL.md, links followed
ManifestFile(c, p) ==
  /\ ExistsSync(c.pre, PathJoin(p, SKILL_MD))
  /\ SNode(c.pre, PathJoin(p, SKILL_MD)).kind = "file"

\* C12: every entry of a scan has hasSkillMd = TRUE and a SKILL.md file
\* reachable at its path; a first-level directory with no SKILL.md file in
\* it and none in any immediate subdirectory contributes no entry.
C12_ManifestInvariant ==
  IsScan(last) =>
    /\ \A i \in 1..Len(last.results) :
         /\ last.results[i].hasSkillMd
         /\ ManifestFile(last, last.results[i].path)
    /\ \A g \in FirstLevelDirectories(last) :
         (/\ ~ManifestFile(last, PathJoin(last.dir, g))
          /\ \A n \in EntryNames(last.pre, PathJoin(last.dir, g)) :
               ~ManifestFile(last, PathJoin(PathJoin(last.dir, g), n)))
         => EntriesUnder(last, g) = {}

(* ------------------------------ C13 ----------------------------------- *)
\* C13: a scan of a target root after conversions with policy backup
\* returns no entry below targetDir/_backup and no entry whose name starts
\* with "_".
C13_BackupIsNeverData ==
  (IsScan(last) /\ prev.op = "convertSkill") =>
    \A i \in 1..Len(last.results) :
      /\ ~IsPrefix(PathJoin(last.dir, BackupName), last.results[i].path)
      /\ ~StartsWithUnderscore(last.results[i].name)

\* a scan that finds the converted entry while _backup holds a backed-up
\* skill directory with its manifest
C13_Witness ==
  /\ IsScan(last)
  /\ prev.op = "convertSkill"
  /\ prev.exit = "succeed"
  /\ Len(last.results) > 0
  /\ \E n \in EntryNames(last.pre, PathJoin(last.dir, BackupName)) :
       ExistsSync(last.pre, PathJoin(PathJoin(PathJoin(last.dir, BackupName), n), SKILL_MD))

(* ------------------------------ C14 ----------------------------------- *)
\* C14: the entries returned by one detectSkills call have pairwise
\* distinct names, whatever the layout of the root.
C14_NamesAreUnique ==
  IsScan(last) =>
    \A i, j \in 1..Len(last.results) :
      last.results[i].name = last.results[j].name => i = j

(* ------------------------------ C15 ----------------------------------- *)
\* C15: in one runConversion promptConflictResolution is called at most
\* once, only while no entry has been converted yet, and its answer is the
\* policy convertSkills is called with; a non-interactive run never calls it.
C15_AtMostOnePrompt ==
  /\ run.prompts <= 1
  /\ run.nonInteractive => run.prompts = 0
  /\ run.pc \in {"prescan", "prompt"} => last.op = "none"
  /\ (run.prompts = 1 /\ run.pc = "convert") => last.op = "none"
  /\ (run.prompts = 1 /\ run.pc = "done") =>
       /\ last.op = "convertSkills"
       /\ last.cr = run.answer
       /\ Len(last.results) = Len(run.skills)

\* a finished interactive run over two entries that both conflict, in
\* which the user was asked
C15_Witness ==
  /\ run.pc = "done"
  /\ run.prompts = 1
  /\ last.op = "convertSkills"
  /\ Len(run.skills) = 2
  /\ \A i \in 1..2 : preScanConflict(last.pre, run.skills[i], run.targetDir)

(* ------------------------------ C16 ----------------------------------- *)
\* the call made a new link at its target path
Linked(c) ==
  /\ IsConvert(c) /\ c.mode = "symlink"
  /\ Succeeded(c) /\ Returned(c).action = "symlinked"

\* the location the text of the link at linkPath designates: the text is
\* resolved from the directory that holds the link, and a link found at
\* that location is not followed
Designated(f, linkPath) ==
  LET at == NoFollow(f, linkPath).path
  IN Walk(f, IF f[at].text.abs THEN <<>> ELSE Parent(at), f[at].text.comps, FALSE, MaxHops)

\* C16: after a successful convertSkill with mode symlink the new link at
\* targetDir/name designates a location that is not a symbolic link: the
\* fully resolved real directory of the source.
C16_NeverLinkToALink ==
  Linked(last) =>
    /\ IsSymbolicLink(fs, TargetPathOf(last))
    /\ Designated(fs, TargetPathOf(last)).ok
    /\ Designated(fs, TargetPathOf(last)).path \in DOMAIN fs
    /\ fs[Designated(fs, TargetPathOf(last)).path].kind = "dir"
    /\ Designated(fs, TargetPathOf(last)).path = Follow(last.pre, SourcePathOf(last)).path

(* ------------------------------ C17 ----------------------------------- *)
\* C17: when the target is a link whose resolved destination equals the
\* resolved source path and the mode is symlink, convertSkill returns
\* success, 'skipped', 'Already linked' under every policy and leaves the
\* filesystem as it was: the link stays and nothing is written to _backup.
C17_AlreadyLinkedBeforePolicy ==
  (IsConvert(last) /\ ShortCircuits(last)) =>
    /\ Succeeded(last)
    /\ Returned(last).success
    /\ Returned(last).action = "skipped"
    /\ Returned(last).error = <<"Already linked">>
    /\ fs = last.pre

\* the short-circuit answered a call whose policy would have moved the link
\* to _backup
C17_Witness ==
  /\ IsConvert(last) /\ ShortCircuits(last)
  /\ last.cr = "backup"
  /\ IsConvert(prev) /\ ShortCircuits(prev)
  /\ prev.cr = "overwrite"

(* ------------------------------ C18 ----------------------------------- *)
InWarnings(v, w) == \E i \in 1..Len(v.warnings) : v.warnings[i] = w

\* the metadata has a value for the field: the field is there and not empty
HasField(skill, field) ==
  field \in DOMAIN skill.frontmatter /\ skill.frontmatter[field] # ""

\* C18: validateSkill gives the frontmatter warning exactly when the
\* metadata has neither a name nor a description, the rules warning exactly
\* when hasRules holds without hasAgentsMd, and valid exactly when it gives
\* no warning.
C18_ValidateSkillWarnings ==
  last.op = "validateSkill" =>
    LET skill == last.skills[1]
        v == last.results[1]
    IN /\ InWarnings(v, MissingNameAndDescription)
            <=> (~HasField(skill, "name") /\ ~HasField(skill, "description"))
       /\ InWarnings(v, RulesWithoutAgentsMd)
            <=> (skill.hasRules /\ ~skill.hasAgentsMd)
       /\ v.valid <=> (v.warnings = <<>>)

\* an entry with a description but no name and with rules but no AGENTS.md,
\* after an entry that got no warning
C18_Witness ==
  /\ last.op = "validateSkill"
  /\ ~HasField(last.skills[1], "name") /\ HasField(last.skills[1], "description")
  /\ last.skills[1].hasRules /\ ~last.skills[1].hasAgentsMd
  /\ last.results[1].warnings = <<RulesWithoutAgentsMd>>
  /\ prev.op = "validateSkill"
  /\ prev.results[1].valid

(* ------------------------------ C19 ----------------------------------- *)
\* the call reached the backup of an existing target
Backs(c) ==
  /\ IsConvert(c) /\ c.cr = "backup"
  /\ LExists(c.pre, TargetPathOf(c))
  /\ ~ShortCircuits(c)

\* C19: two backups of the same entry name under the same target root use
\* different backup paths, at any two times, so the later one leaves the
\* earlier backup as it was and stores the target it found under its own
\* backup path.
C19_BackupsNeverCollide ==
  (Backs(prev) /\ Backs(last) /\ Succeeded(prev)
     /\ SkillOf(prev).name = SkillOf(last).name /\ prev.targetDir = last.targetDir) =>
    /\ BackupPathOf(prev) # BackupPathOf(last)
    /\ TreeOf(fs, BackupPathOf(prev)) = TreeOf(last.pre, BackupPathOf(prev))
    /\ LExists(fs, BackupPathOf(last))
    /\ TreeOf(fs, BackupPathOf(last)) = TreeOf(last.pre, TargetPathOf(last))

(* ------------------------------ C20 ----------------------------------- *)
\* convertSkill takes the i-th entry of the batch c to the conflict policy
ReachesPolicy(c, i) ==
  /\ LExists(StateBefore(c, i), PathJoin(c.targetDir, c.skills[i].name))
  /\ ~(/\ c.mode = "symlink"
       /\ isSymlinkTo(StateBefore(c, i), PathJoin(c.targetDir, c.skills[i].name),
                      c.skills[i].path))

\* C20: in an interactive run the user was prompted for the policy exactly
\* when convertSkill takes some entry of the run to the conflict policy.
C20_PromptedForEveryConflict ==
  (run.pc = "done" /\ ~run.nonInteractive /\ last.op = "convertSkills") =>
    ((\E i \in 1..Len(last.skills) : ReachesPolicy(last, i)) <=> run.prompts = 1)

(* ------------------------------ C21 ----------------------------------- *)
\* the call applied policy overwrite to a target that was a link
OverwroteLink(c) ==
  /\ IsConvert(c) /\ c.cr = "overwrite"
  /\ IsSymbolicLink(c.pre, TargetPathOf(c))
  /\ ~ShortCircuits(c)

\* the directory the link at the target referred to before the call
Referent(c) == Follow(c.pre, TargetPathOf(c)).path

\* the call moves the very directory the overwritten link referred to: the
\* mode is move and the link led to the entry's own source directory
MovesReferent(c) ==
  /\ c.mode = "move"
  /\ ~IsSymbolicLink(c.pre, SourcePathOf(c))
  /\ Referent(c) = Follow(c.pre, SourcePathOf(c)).path

\* C21 as stated: with policy overwrite and a target that is a symbolic
\* link, the link is unlinked (no link is left where a copy or a move put
\* the entry) and the directory it referred to stays, with all its
\* contents, as it was.
C21_OverwriteRemovesOnlyTheLink ==
  OverwroteLink(last) =>
    /\ (Succeeded(last) /\ last.mode # "symlink") =>
         ~IsSymbolicLink(fs, TargetPathOf(last))
    /\ IsDir(last.pre, TargetPathOf(last)) =>
         Subtree(fs, Referent(last)) = Subtree(last.pre, Referent(last))

\* C21 amended: the overwrite unlinks the link and the directory it
\* referred to stays as it was, unless the mode is move and that directory
\* is the entry's own source: then the move takes it, unchanged, to the
\* target path.
C21_OverwriteKeepsReferent ==
  OverwroteLink(last) =>
    /\ (Succeeded(last) /\ last.mode # "symlink") =>
         ~IsSymbolicLink(fs, TargetPathOf(last))
    /\ IsDir(last.pre, TargetPathOf(last)) =>
         IF MovesReferent(last) /\ Succeeded(last)
         THEN /\ Referent(last) \notin DOMAIN fs
              /\ TreeOf(fs, TargetPathOf(last)) = Subtree(last.pre, Referent(last))
         ELSE Subtree(fs, Referent(last)) = Subtree(last.pre, Referent(last))

\* a link to a skill directory other than the source was overwritten by a
\* copy
C21_Witness ==
  /\ OverwroteLink(last) /\ Succeeded(last)
  /\ IsDir(last.pre, TargetPathOf(last))
  /\ last.mode = "copy"
  /\ Referent(last) # Follow(last.pre, SourcePathOf(last)).path
  /\ Subtree(last.pre, Referent(last)) # <<>>

(* ------------------------------ C22 ----------------------------------- *)
\* a successful move of an entry whose source path was a link
MovedLinkedSource(c) ==
  /\ IsConvert(c) /\ c.mode = "move"
  /\ Succeeded(c) /\ Returned(c).action = "moved"
  /\ IsSymbolicLink(c.pre, SourcePathOf(c))

\* C22: a successful move of a source that is a symbolic link copies the
\* content of the link's real directory to the target, removes the source
\* link, and leaves the real directory in place and unchanged.
C22_MoveOfLinkedSource ==
  MovedLinkedSource(last) =>
    /\ ~LExists(fs, SourcePathOf(last))
    /\ ~IsSymbolicLink(fs, TargetPathOf(last))
    /\ TreeOf(fs, TargetPathOf(last)) = TreeAt(last.pre, SourcePathOf(last))
    /\ Subtree(fs, Follow(last.pre, SourcePathOf(last)).path)
         = TreeAt(last.pre, SourcePathOf(last))

\* the moved source was a link to a link to the real directory
C22_Witness ==
  /\ MovedLinkedSource(last)
  /\ IsSymbolicLink(last.pre, PathJoin(Elsewhere, A \o <<"2">>))
  /\ FilesOf(TreeOf(fs, TargetPathOf(last))) # {}

(* ------------------------------ C23 ----------------------------------- *)
\* the target of the call was a dangling link that the 'Already linked'
\* short-circuit did not answer for
DanglingTarget(c) ==
  /\ IsConvert(c)
  /\ IsSymbolicLink(c.pre, TargetPathOf(c))
  /\ ~ExistsSync(c.pre, TargetPathOf(c))
  /\ ~ShortCircuits(c)

\* what the mode of the call puts at the target: a link with the relative
\* path to the real source, or a directory with the tree of the source
StrategyOutput(c, f) ==
  IF c.mode = "symlink"
  THEN /\ IsSymbolicLink(f, TargetPathOf(c))
       /\ LNode(f, TargetPathOf(c)).text
            = PathRelative(c.targetDir, Follow(c.pre, SourcePathOf(c)).path)
  ELSE /\ LExists(f, TargetPathOf(c))
       /\ LNode(f, TargetPathOf(c)).kind = "dir"
       /\ TreeOf(f, TargetPathOf(c)) = TreeAt(c.pre, SourcePathOf(c))

C24_RelativeLinkResolves ==
  Linked(last) =>
    /\ IsSymbolicLink(fs, TargetPathOf(last))
    /\ ~LNode(fs, TargetPathOf(last)).text.abs
    /\ ExistsSync(fs, TargetPathOf(last))
    /\ Follow(fs, TargetPathOf(last)).path = Follow(last.pre, SourcePathOf(last)).path
    /\ ExistsSync(fs, PathJoin(TargetPathOf(last), SKILL_MD))

(* ------------------------------ C25 ----------------------------------- *)
\* relative paths of the symbolic links of a tree
LinksOf(tree) == {r \in DOMAIN tree : tree[r].kind = "link"}

\* the call copied the entry: mode copy, or mode move of a linked source
CopiedByCopyDir(c) ==
  /\ IsConvert(c) /\ Succeeded(c)
  /\ \/ c.mode = "copy" /\ Returned(c).action = "copied"
     \/ MovedLinkedSource(c)

\* C25: a conversion or a scan of an entry with links inside, also links
\* that lead back into the entry or to each other, comes to an end; a copy
\* (mode copy, or move of a linked source) leaves at the target exactly
\* the directories, files and links of the entry's directory, every link
\* with the text it had; the size a scan reports counts the regular files
\* stored in the entry's directory and nothing reached through a link.
C25_InnerLinksAreNotFollowed ==
  /\ (IsConvert(last) \/ IsScan(last)) => last.exit \in {"succeed", "fail"}
  /\ CopiedByCopyDir(last) =>
       /\ LExists(fs, TargetPathOf(last))
       /\ DOMAIN TreeOf(fs, TargetPathOf(last)) = DOMAIN TreeAt(last.pre, SourcePathOf(last))
       /\ \A r \in LinksOf(TreeAt(last.pre, SourcePathOf(last))) :
            /\ TreeOf(fs, TargetPathOf(last))[r].kind = "link"
            /\ TreeOf(fs, TargetPathOf(last))[r].text
                 = TreeAt(last.pre, SourcePathOf(last))[r].text
  /\ (IsScan(last) /\ last.exit = "succeed") =>
       \A i \in DOMAIN last.results :
         last.results[i].sizeKb
           = RoundKb(600 * Cardinality(FilesOf(TreeAt(last.pre, last.results[i].path))))

\* a scan of the target root found the copy of an entry with links inside
C25_Witness ==
  /\ IsScan(last) /\ last.dir = TargetRoot /\ Len(last.results) = 1
  /\ CopiedByCopyDir(prev)
  /\ Cardinality(LinksOf(TreeAt(fs, last.results[1].path))) = 3
  /\ last.results[1].sizeKb = 2

(* ------------------------------ C26 ----------------------------------- *)
\* a run that main started and that found entries to convert
MainRun == run.pc \in {"prescan", "prompt", "convert", "done"} /\ run.skills # <<>>

\* C26: in an interactive run started from main without --mode the user
\* has been asked for the mode, once, at every point from the pre-scan on,
\* so before any entry is converted, and the mode is one of the three
\* strategies; with --mode given the user is not asked and the mode is the
\* one given; in a non-interactive run the user is not asked and the mode
\* without --mode is symlink.
C26_ModePromptBeforeConversion ==
  MainRun =>
    /\ (~run.nonInteractive /\ run.argsMode = "") =>
         (run.modePrompts = 1 /\ run.finalMode \in Modes)
    /\ run.argsMode # "" => (run.modePrompts = 0 /\ run.finalMode = run.argsMode)
    /\ (run.nonInteractive /\ run.argsMode = "") =>
         (run.modePrompts = 0 /\ run.finalMode = "symlink")

(* ------------------------------ C27 ----------------------------------- *)
\* the call links or copies an entry whose source resolves to a directory
LinksOrCopies(c) ==
  /\ IsConvert(c) /\ c.mode \in {"symlink", "copy"}
  /\ IsDir(c.pre, SourcePathOf(c))

\* the real directory the source of the call resolves to
RealSource(c) == Follow(c.pre, SourcePathOf(c)).path

\* C27: a convertSkill call with mode symlink or copy leaves the real
\* directory its source resolves to where it was, with all its contents,
\* for every policy, also when that directory is the target path itself.
C27_SourceSurvivesLinkAndCopy ==
  LinksOrCopies(last) =>
    /\ RealSource(last) \in DOMAIN fs
    /\ Subtree(fs, RealSource(last)) = Subtree(last.pre, RealSource(last))

(* ------------------------------ C28 ----------------------------------- *)
\* what is stored at a path: nothing, or the tree found there, a link
\* taken as the link alone
StoredAt(f, p) == IF LExists(f, p) THEN <<TreeOf(f, p)>> ELSE <<>>

\* C28: when the conversion of an entry of a batch fails (its result has
\* success=false), targetDir/name holds after that conversion what it held
\* before it, for every mode and every policy.
C28_FailureLeavesTargetAlone ==
  IsBatch(last) =>
    \A i \in 1..Len(last.results) :
      ~last.results[i].success =>
        StoredAt(Alone(last, i).fs, PathJoin(last.targetDir, last.skills[i].name))
          = StoredAt(StateBefore(last, i), PathJoin(last.targetDir, last.skills[i].name))

(* ------------------------------ C29 ----------------------------------- *)
\* result i of the batch c reports that the entry was put at its target
Reported(c, i) ==
  c.results[i].success /\ c.results[i].action \in {"symlinked", "copied", "moved"}

\* C29: when a run has converted all the entries detected in its source
\* root, every result that reports success with symlinked, copied or moved
\* names a target path that exists and gives access to the content its own
\* entry had when the batch began.
C29_ReportedSuccessStaysTrue ==
  (run.pc = "done" /\ IsBatch(last)) =>
    \A i \in 1..Len(last.results) :
      Reported(last, i) =>
        /\ ExistsSync(fs, last.results[i].targetPath)
        /\ TreeAt(fs, last.results[i].targetPath) = TreeAt(last.pre, last.skills[i].path)

(* ------------------------------ C30 ----------------------------------- *)
\* the backup policy of the call moved what it found at the target to the
\* call's backup path
BackedUp(c) ==
  /\ Backs(c)
  /\ LExists(fs, BackupPathOf(c))
  /\ TreeOf(fs, BackupPathOf(c)) = TreeOf(c.pre, TargetPathOf(c))

\* C30: after the backup policy has moved a target into _backup, the
\* backup entry gives access to what the target gave access to before the
\* call: it resolves exactly when the target resolved, and to the same
\* tree, also when the target was a link with a relative text.
C30_BackupKeepsAccess ==
  BackedUp(last) =>
    /\ ExistsSync(fs, BackupPathOf(last)) <=> ExistsSync(last.pre, TargetPathOf(last))
    /\ ExistsSync(fs, BackupPathOf(last)) =>
         TreeAt(fs, BackupPathOf(last)) = TreeAt(last.pre, TargetPathOf(last))

====
